---------------------------- MODULE Spec2Model ----------------------------
(***************************************************************************)
(* Model of setup.js, the NvChad provisioning script.                      *)
(*                                                                         *)
(* The script is one synchronous top-level program: a prerequisite gate    *)
(* (node, npm, git) followed by five provisioning steps.  Every statement  *)
(* with an effect outside the process is one action here; the log() calls  *)
(* around it belong to the action of the statement they precede or follow. *)
(*                                                                         *)
(* Strings whose characters matter (version strings) are sequences of      *)
(* one-character strings, compared by UTF-16 code unit as JavaScript does. *)
(* Timestamps of log lines are left out: no statement reads them.          *)
(***************************************************************************)
EXTENDS Integers, Sequences, FiniteSets, TLC

VARIABLES
    pc,         \* position of the script
    idx,        \* index of the forEach iteration in progress (prerequisites, configFiles)
    host,       \* what the script can observe or change on the host (editor, files)
    checks,     \* history: one record per prerequisite iteration that ran
    acts,       \* history: external commands and filesystem changes attempted
    logStream,  \* chunks handed to logStream.write(), in order
    logFile,    \* chunks of this run that reached debug.log on disk
    console,    \* lines written to stdout / stderr
    streamEnded,\* logStream.end() was called
    exitCode    \* exit status of the process: 0 or 1, -1 while it runs

vars == <<pc, idx, host, checks, acts, logStream, logFile, console, streamEnded, exitCode>>

-----------------------------------------------------------------------------
(* Bounds of the model.                                                    *)

\* Largest minor version a probed tool reports.
MaxMinor == 1

\* Largest major version a probed tool reports (two digits).
MaxMajor == 20

-----------------------------------------------------------------------------
(* Strings as character sequences.                                         *)

\* UTF-16 code units of the characters that occur in probe outputs.
Code ==
    [c \in {"\n", " ", ".", "0", "1", "2", "3", "4", "5", "6", "7", "8", "9",
            "e", "g", "i", "n", "o", "r", "s", "t", "v"} |->
        CASE c = "\n" -> 10 [] c = " " -> 32 [] c = "." -> 46
          [] c = "0" -> 48 [] c = "1" -> 49 [] c = "2" -> 50 [] c = "3" -> 51
          [] c = "4" -> 52 [] c = "5" -> 53 [] c = "6" -> 54 [] c = "7" -> 55
          [] c = "8" -> 56 [] c = "9" -> 57
          [] c = "e" -> 101 [] c = "g" -> 103 [] c = "i" -> 105
          [] c = "n" -> 110 [] c = "o" -> 111 [] c = "r" -> 114
          [] c = "s" -> 115 [] c = "t" -> 116 [] c = "v" -> 118]

Digit == <<"0", "1", "2", "3", "4", "5", "6", "7", "8", "9">>

\* Decimal text of a natural number, as a tool prints a version segment.
RECURSIVE FmtNat(_)
FmtNat(n) ==
    IF n < 10 THEN <<Digit[n + 1]>>
    ELSE FmtNat(n \div 10) \o <<Digit[(n % 10) + 1]>>

\* "major.minor.patch"
FmtVersion(v) ==
    FmtNat(v[1]) \o <<".">> \o FmtNat(v[2]) \o <<".">> \o FmtNat(v[3])

IsSpace(c) == c \in {" ", "\n"}

\* String.prototype.trim(): leading and trailing white space removed.
RECURSIVE TrimLeft(_)
TrimLeft(s) ==
    IF s # <<>> /\ IsSpace(Head(s)) THEN TrimLeft(Tail(s)) ELSE s

RECURSIVE TrimRight(_)
TrimRight(s) ==
    IF s # <<>> /\ IsSpace(s[Len(s)]) THEN TrimRight(SubSeq(s, 1, Len(s) - 1)) ELSE s

Trim(s) == TrimRight(TrimLeft(s))

\* s.replace(/^v/, ''): the first character removed when it is a "v".
StripV(s) ==
    IF s # <<>> /\ Head(s) = "v" THEN Tail(s) ELSE s

IsPrefix(p, s) == Len(p) <= Len(s) /\ SubSeq(s, 1, Len(p)) = p

\* px < py on two strings (ECMAScript IsLessThan): a proper prefix is smaller,
\* otherwise the code units at the first differing index decide.
JSLess(px, py) ==
    IF IsPrefix(py, px) THEN FALSE
    ELSE IF IsPrefix(px, py) THEN TRUE
    ELSE LET k == CHOOSE i \in 1..Len(px) :
                      /\ px[i] # py[i]
                      /\ \A j \in 1..(i - 1) : px[j] = py[j]
         IN  Code[px[k]] < Code[py[k]]


-----------------------------------------------------------------------------
(* Logger (lines 8-23).                                                    *)

NoText == <<>>

\* The chunk log(message) writes to the stream: "[ts] message".
\* A message is its fixed text, the name or command interpolated into it, and
\* the version string interpolated into it (NoText when there is none).
InfoEntry(text, arg, ver) ==
    [sev |-> "INFO", text |-> text, arg |-> arg, ver |-> ver]

\* The chunk logError(message) writes to the stream: "[ts] ERROR: message".
ErrorEntry(text, arg, ver) ==
    [sev |-> "ERROR", text |-> text, arg |-> arg, ver |-> ver]

\* What the same call prints: console.log for log(), console.error for logError().
ConsoleLine(e) ==
    [fd   |-> IF e.sev = "ERROR" THEN "stderr" ELSE "stdout",
     text |-> e.text, arg |-> e.arg, ver |-> e.ver]

\* A run of log()/logError() calls: each chunk goes to the stream's buffer and
\* its message to the console.  Nothing reaches the file here: the stream
\* writes from the event loop, which the synchronous script never yields to.
ConsoleLines(entries) == [i \in 1..Len(entries) |-> ConsoleLine(entries[i])]

Emit(entries) ==
    /\ logStream' = logStream \o entries
    /\ console' = console \o ConsoleLines(entries)
    /\ UNCHANGED logFile

-----------------------------------------------------------------------------
(* Process termination.                                                    *)

\* process.exit(code): the process ends at once; the event loop never runs.
ProcessExit(code) ==
    /\ pc' = "exited"
    /\ exitCode' = code

\* An exception nobody catches: the trace goes to stderr, exit status 1.
UncaughtLine(what) ==
    [fd |-> "stderr", text |-> "Uncaught exception", arg |-> what, ver |-> NoText]

\* The log() calls `pre` ran, then a call threw and nothing caught it.
Throw(pre, what) ==
    /\ logStream' = logStream \o pre
    /\ console' = console \o ConsoleLines(pre) \o <<UncaughtLine(what)>>
    /\ UNCHANGED logFile
    /\ ProcessExit(1)

-----------------------------------------------------------------------------
(* Prerequisite gate (lines 26-50).                                        *)

prerequisites ==
    << [name |-> "Node.js", command |-> "node --version",
        minVersion |-> <<"v", "1", "4", ".", "0", ".", "0">>],
       [name |-> "npm", command |-> "npm --version",
        minVersion |-> <<"6", ".", "0", ".", "0">>],
       [name |-> "Git", command |-> "git --version",
        minVersion |-> <<"2", ".", "0", ".", "0">>] >>

\* Versions a probed tool may have on the host.
Majors == {1, 2, 9, 10, 14, MaxMajor}
HostVersions == {<<maj, min, 0>> : maj \in Majors, min \in 0..MaxMinor}

GitBanner == <<"g", "i", "t", " ", "v", "e", "r", "s", "i", "o", "n", " ">>

\* What the probe command of prerequisite i prints for version v: node prints
\* "v14.0.0", npm "6.0.0"; git prints "git version 2.0.0" (banner TRUE); a git that
\* prints the bare number (banner FALSE) is the form line 40 presumes.
ProbeOutput(i, v, banner) ==
    (IF i = 1 THEN <<"v">> ELSE IF banner THEN GitBanner ELSE <<>>)
        \o FmtVersion(v) \o <<"\n">>

\* Mutant: the operands of line 40 swapped.
VersionTooOldSwapped(currentVersion, requiredVersion) ==
    JSLess(requiredVersion, currentVersion)

\* Mutant: line 40 with <= for <.
VersionTooOldOrEqual(currentVersion, requiredVersion) ==
    currentVersion = requiredVersion \/ JSLess(currentVersion, requiredVersion)

\* line 40: currentVersion < requiredVersion
VersionTooOld(currentVersion, requiredVersion) ==
    JSLess(currentVersion, requiredVersion)

\* line 35
VersionEntry(prereq, version) ==
    InfoEntry(" version: ", prereq.name, version)

\* lines 41-43
OutdatedEntry(prereq) ==
    ErrorEntry(" or higher is required. Please update and run the script again.",
               prereq.name, prereq.minVersion)

\* Mutant: the catch block logs the message of the other branch.
MissingEntriesAsOutdated(prereq) ==
    << ErrorEntry(" or higher is required. Please update and run the script again.",
                  prereq.name, prereq.minVersion) >>

\* line 47
MissingEntries(prereq) ==
    << ErrorEntry(" is not installed. Please install it and run the script again.",
                  prereq.name, NoText) >>

\* One iteration of prerequisites.forEach whose probe command cannot run:
\* execSync throws, the catch block logs and exits.
CheckMissing ==
    /\ pc = "gate"
    /\ LET prereq == prerequisites[idx] IN
        /\ checks' = Append(checks, [i |-> idx, out |-> NoText, ver |-> <<>>,
                                     result |-> "missing"])
        /\ Emit(MissingEntries(prereq))
        /\ ProcessExit(1)
    /\ UNCHANGED <<idx, host, acts, streamEnded>>

\* One iteration whose probe command printed a version.
CheckVersion ==
    /\ pc = "gate"
    /\ \E v \in HostVersions, banner \in BOOLEAN :
        /\ banner => idx = 3
        /\ LET prereq == prerequisites[idx]
               out == ProbeOutput(idx, v, banner)
               version == Trim(out)
               currentVersion == StripV(version)
               requiredVersion == StripV(prereq.minVersion)
           IN  IF VersionTooOld(currentVersion, requiredVersion)
               THEN /\ checks' = Append(checks, [i |-> idx, out |-> out, ver |-> v,
                                                 result |-> "outdated"])
                    /\ Emit(<<VersionEntry(prereq, version), OutdatedEntry(prereq)>>)
                    /\ ProcessExit(1)
                    /\ UNCHANGED idx
               ELSE /\ checks' = Append(checks, [i |-> idx, out |-> out, ver |-> v,
                                                 result |-> "pass"])
                    /\ Emit(<<VersionEntry(prereq, version)>>)
                    /\ IF idx < Len(prerequisites)
                       THEN idx' = idx + 1 /\ pc' = "gate"
                       ELSE idx' = 1 /\ pc' = "editor_probe"
                    /\ UNCHANGED exitCode
    /\ UNCHANGED <<host, acts, streamEnded>>


-----------------------------------------------------------------------------
(* Command runner (lines 53-62).                                           *)

\* How execSync ends: exit status 0, a non-zero status, or the child could
\* not be spawned.
ExecOutcomes == {"ok", "status", "spawn"}

\* An entry of acts: "run" is a runCommand call, "exec" a direct execSync,
\* the others are the fs.*Sync calls that change the host.
Act(op, arg, ok) == [op |-> op, arg |-> arg, ok |-> ok]

\* error.message of the error execSync throws: "Command failed: <command>"
\* for a non-zero status, the spawn error's own text otherwise.
ErrorMessageEntry(command, how) ==
    IF how = "status"
    THEN ErrorEntry("Command failed: ", command, NoText)
    ELSE ErrorEntry("spawnSync /bin/sh ENOENT", "", NoText)

\* Mutant: the catch block without line 59.
RunCommandErrorsOnce(command, how) ==
    << ErrorEntry("Error executing command: ", command, NoText) >>

\* lines 58-59: the two logError calls of the catch block.
RunCommandErrors(command, how) ==
    << ErrorEntry("Error executing command: ", command, NoText),
       ErrorMessageEntry(command, how) >>

\* line 56
ExecutedEntry(command) == InfoEntry("Command executed: ", command, NoText)

\* Mutant: the catch block without line 60; the script goes on.
RunCommandNoExit(command, pre, hostOk, post, next) ==
    \E how \in ExecOutcomes :
        /\ acts' = Append(acts, Act("run", command, how = "ok"))
        /\ IF how = "ok"
           THEN /\ host' = hostOk
                /\ Emit(pre \o <<ExecutedEntry(command)>> \o post)
           ELSE /\ UNCHANGED host
                /\ Emit(pre \o RunCommandErrors(command, how) \o post)
        /\ pc' = next
        /\ UNCHANGED <<idx, checks, streamEnded, exitCode>>

\* Mutant: the catch block removes the temporary archive before exiting.
RunCommandCleanup(command, pre, hostOk, post, next) ==
    \E how \in ExecOutcomes :
        /\ acts' = Append(acts, Act("run", command, how = "ok"))
        /\ IF how = "ok"
           THEN /\ host' = hostOk
                /\ Emit(pre \o <<ExecutedEntry(command)>> \o post)
                /\ pc' = next
                /\ UNCHANGED exitCode
           ELSE /\ host' = [host EXCEPT !.zip = FALSE]
                /\ Emit(pre \o RunCommandErrors(command, how))
                /\ ProcessExit(1)
        /\ UNCHANGED <<idx, checks, streamEnded>>

\* runCommand(command), called at position `pre` logs first, and followed on
\* return by the log() calls `post`; hostOk is the host after the command
\* succeeded.  A failed command leaves the modelled host as it was.
RunCommand(command, pre, hostOk, post, next) ==
    \E how \in ExecOutcomes :
        /\ acts' = Append(acts, Act("run", command, how = "ok"))
        /\ IF how = "ok"
           THEN /\ host' = hostOk
                /\ Emit(pre \o <<ExecutedEntry(command)>> \o post)
                /\ pc' = next
                /\ UNCHANGED exitCode
           ELSE /\ UNCHANGED host
                /\ Emit(pre \o RunCommandErrors(command, how))
                /\ ProcessExit(1)
        /\ UNCHANGED <<idx, checks, streamEnded>>

\* A direct fs.*Sync call that throws after the log() calls `pre`: nothing
\* catches it.
FsThrows(pre, op, path) ==
    /\ acts' = Append(acts, Act(op, path, FALSE))
    /\ Throw(pre, path)
    /\ UNCHANGED <<idx, host, checks, streamEnded>>

-----------------------------------------------------------------------------
(* Provisioning steps (lines 64-129).                                      *)

CmdNvimProbe == "nvim --version"
CmdAptInstall == "sudo apt-get install neovim"
fontZip == "JetBrainsMono.zip"
fontDir == "$HOME/.local/share/fonts"
nvimDir == "$HOME/.config/nvim"
customDir == "$HOME/.config/nvim/lua/custom"
CmdCurl == "curl -L -o JetBrainsMono.zip https://download.jetbrains.com/fonts/JetBrainsMono-2.242.zip"
CmdUnzip == "unzip -q JetBrainsMono.zip -d $HOME/.local/share/fonts"
CmdFcCache == "fc-cache -f"
CmdClone == "git clone -b v2.0 https://github.com/NvChad/NvChad $HOME/.config/nvim --depth 1"
CmdPyright == "sudo npm install -g pyright"
CmdTsServer == "sudo npm install -g typescript-language-server"

configFiles ==
    << [src |-> "configs/chadrc.lua", dest |-> "$HOME/.config/nvim/lua/custom/chadrc.lua"],
       [src |-> "configs/plugins.lua", dest |-> "$HOME/.config/nvim/lua/custom/plugins.lua"],
       [src |-> "configs/lspconfig.lua",
        dest |-> "$HOME/.config/nvim/lua/plugins/configs/lspconfig.lua"] >>

Msg(text) == InfoEntry(text, "", NoText)

\* lines 65-68: the editor is there, its probe succeeds.
EditorPresent ==
    /\ pc = "editor_probe"
    /\ host.editor
    /\ acts' = Append(acts, Act("exec", CmdNvimProbe, TRUE))
    /\ Emit(<<Msg("Checking if NeoVim is installed..."),
              Msg("NeoVim is already installed.")>>)
    /\ pc' = "font_mkdir"
    /\ UNCHANGED <<idx, host, checks, streamEnded, exitCode>>

\* lines 65-70: the probe throws (editor absent, or the probe itself failed).
EditorAbsent ==
    /\ pc = "editor_probe"
    /\ acts' = Append(acts, Act("exec", CmdNvimProbe, FALSE))
    /\ Emit(<<Msg("Checking if NeoVim is installed..."),
              Msg("Installing NeoVim...")>>)
    /\ pc' = "editor_install"
    /\ UNCHANGED <<idx, host, checks, streamEnded, exitCode>>

\* lines 71-72
EditorInstall ==
    /\ pc = "editor_install"
    /\ RunCommand(CmdAptInstall, <<>>, [host EXCEPT !.editor = TRUE],
                  <<Msg("NeoVim installation completed.")>>, "font_mkdir")

\* lines 76-80
FontMkdir ==
    /\ pc = "font_mkdir"
    /\ Emit(<<Msg("Installing JetBrains Mono Nerd Font...")>>)
    /\ IF host.fontDir
       THEN UNCHANGED <<host, acts>>
       ELSE /\ host' = [host EXCEPT !.fontDir = TRUE]
            /\ acts' = Append(acts, Act("mkdir", fontDir, TRUE))
    /\ pc' = "font_curl"
    /\ UNCHANGED <<idx, checks, streamEnded, exitCode>>

FontMkdirThrows ==
    /\ pc = "font_mkdir"
    /\ ~host.fontDir
    /\ FsThrows(<<Msg("Installing JetBrains Mono Nerd Font...")>>, "mkdir", fontDir)


\* line 84
FontDownload ==
    /\ pc = "font_curl"
    /\ RunCommand(CmdCurl, <<>>, [host EXCEPT !.zip = TRUE], <<>>, "font_unzip")

\* line 85
FontExtract ==
    /\ pc = "font_unzip"
    /\ RunCommand(CmdUnzip, <<>>, [host EXCEPT !.fonts = TRUE], <<>>, "font_unlink")

\* Mutant: line 86 left out.
FontUnlinkSkipped ==
    /\ pc = "font_unlink"
    /\ pc' = "font_cache"
    /\ UNCHANGED <<idx, host, checks, acts, logStream, logFile, console,
                   streamEnded, exitCode>>

\* line 86
FontUnlink ==
    /\ pc = "font_unlink"
    /\ host' = [host EXCEPT !.zip = FALSE]
    /\ acts' = Append(acts, Act("unlink", fontZip, TRUE))
    /\ pc' = "font_cache"
    /\ UNCHANGED <<idx, checks, logStream, logFile, console, streamEnded, exitCode>>

FontUnlinkThrows ==
    /\ pc = "font_unlink"
    /\ FsThrows(<<>>, "unlink", fontZip)

\* lines 87-88
FontCache ==
    /\ pc = "font_cache"
    /\ RunCommand(CmdFcCache, <<>>, host,
                  <<Msg("JetBrains Mono Nerd Font installation completed.")>>,
                  "nvim_check")

\* Mutant: lines 93-97 left out; an existing configuration root is kept.
NvimRemoveSkipped ==
    /\ pc = "nvim_check"
    /\ Emit(<<Msg("Checking if NVChad is installed...")>>)
    /\ pc' = "nvim_clone"
    /\ UNCHANGED <<idx, host, checks, acts, streamEnded, exitCode>>

\* lines 91-97
NvimRemove ==
    /\ pc = "nvim_check"
    /\ IF host.nvimDir
       THEN /\ host' = [host EXCEPT !.nvimDir = FALSE, !.customDir = FALSE,
                                    !.configs = {}]
            /\ acts' = Append(acts, Act("rmdir", nvimDir, TRUE))
            /\ Emit(<<Msg("Checking if NVChad is installed..."),
                      Msg("Removing existing NVChad installation..."),
                      Msg("Existing NVChad installation removed.")>>)
       ELSE /\ UNCHANGED <<host, acts>>
            /\ Emit(<<Msg("Checking if NVChad is installed...")>>)
    /\ pc' = "nvim_clone"
    /\ UNCHANGED <<idx, checks, streamEnded, exitCode>>

NvimRemoveThrows ==
    /\ pc = "nvim_check"
    /\ host.nvimDir
    /\ FsThrows(<<Msg("Checking if NVChad is installed..."),
                  Msg("Removing existing NVChad installation...")>>,
                "rmdir", nvimDir)

\* lines 99-101: the clone creates the configuration root; the pinned tag
\* ships lua/plugins/configs and no lua/custom.
NvimClone ==
    /\ pc = "nvim_clone"
    /\ RunCommand(CmdClone, <<Msg("Installing NVChad...")>>,
                  [host EXCEPT !.nvimDir = TRUE],
                  <<Msg("NVChad installation completed.")>>, "custom_mkdir")

\* lines 104-108
CustomMkdir ==
    /\ pc = "custom_mkdir"
    /\ Emit(<<Msg("Configuring NVChad and LSPs...")>>)
    /\ IF host.customDir
       THEN UNCHANGED <<host, acts>>
       ELSE /\ host' = [host EXCEPT !.customDir = TRUE]
            /\ acts' = Append(acts, Act("mkdir", customDir, TRUE))
    /\ pc' = "copy"
    /\ idx' = 1
    /\ UNCHANGED <<checks, streamEnded, exitCode>>

CustomMkdirThrows ==
    /\ pc = "custom_mkdir"
    /\ ~host.customDir
    /\ FsThrows(<<Msg("Configuring NVChad and LSPs...")>>, "mkdir", customDir)

\* lines 116-120: one iteration of configFiles.forEach; line 120 follows the last.
CopyConfig ==
    /\ pc = "copy"
    /\ LET file == configFiles[idx] IN
        /\ host' = [host EXCEPT !.configs = @ \cup {file.dest}]
        /\ acts' = Append(acts, Act("copy", file.dest, TRUE))
        /\ IF idx < Len(configFiles)
           THEN /\ Emit(<<InfoEntry("Copied", file.src, NoText)>>)
                /\ idx' = idx + 1
                /\ pc' = "copy"
           ELSE /\ Emit(<<InfoEntry("Copied", file.src, NoText),
                          Msg("NVChad and LSPs configuration completed.")>>)
                /\ idx' = 1
                /\ pc' = "lsp_pyright"
    /\ UNCHANGED <<checks, streamEnded, exitCode>>

CopyConfigThrows ==
    /\ pc = "copy"
    /\ FsThrows(<<>>, "copy", configFiles[idx].dest)

\* lines 123-124
LspPyright ==
    /\ pc = "lsp_pyright"
    /\ RunCommand(CmdPyright, <<Msg("Installing LSPs for Python and TypeScript...")>>,
                  [host EXCEPT !.lsps = @ \cup {"pyright"}], <<>>, "lsp_ts")

\* lines 125-126
LspTypeScript ==
    /\ pc = "lsp_ts"
    /\ RunCommand(CmdTsServer, <<>>,
                  [host EXCEPT !.lsps = @ \cup {"typescript-language-server"}],
                  <<Msg("LSPs for Python and TypeScript installed.")>>, "script_end")

\* lines 128-129: the last log and logStream.end(); the script returns to the
\* event loop.
ScriptEnd ==
    /\ pc = "script_end"
    /\ Emit(<<Msg("Setup completed successfully!")>>)
    /\ streamEnded' = TRUE
    /\ pc' = "eventloop"
    /\ UNCHANGED <<idx, host, checks, acts, exitCode>>

\* line 9, completed by the event loop: the stream opens debug.log for append,
\* writes the buffered chunks and closes; the process then ends with status 0.
StreamFlush ==
    /\ pc = "eventloop"
    /\ logFile' = logFile \o logStream
    /\ ProcessExit(0)
    /\ UNCHANGED <<idx, host, checks, acts, logStream, console, streamEnded>>

\* The open fails: the stream emits 'error', which has no listener.
StreamOpenFails ==
    /\ pc = "eventloop"
    /\ Throw(<<>>, "debug.log")
    /\ UNCHANGED <<idx, host, checks, acts, streamEnded>>

-----------------------------------------------------------------------------
(* The program.                                                            *)

Hosts ==
    {[editor |-> e, fontDir |-> f, zip |-> FALSE, fonts |-> f, nvimDir |-> n,
      customDir |-> n, configs |-> {}, lsps |-> {}] :
        e \in BOOLEAN, f \in BOOLEAN, n \in BOOLEAN}

Init ==
    /\ pc = "gate"
    /\ idx = 1
    /\ host \in Hosts
    /\ checks = <<>>
    /\ acts = <<>>
    /\ logStream = <<>>
    /\ logFile = <<>>
    /\ console = <<>>
    /\ streamEnded = FALSE
    /\ exitCode = -1

Next ==
    \/ CheckMissing
    \/ CheckVersion
    \/ EditorPresent
    \/ EditorAbsent
    \/ EditorInstall
    \/ FontMkdir
    \/ FontMkdirThrows
    \/ FontDownload
    \/ FontExtract
    \/ FontUnlink
    \/ FontUnlinkThrows
    \/ FontCache
    \/ NvimRemove
    \/ NvimRemoveThrows
    \/ NvimClone
    \/ CustomMkdir
    \/ CustomMkdirThrows
    \/ CopyConfig
    \/ CopyConfigThrows
    \/ LspPyright
    \/ LspTypeScript
    \/ ScriptEnd
    \/ StreamFlush
    \/ StreamOpenFails

Spec == Init /\ [][Next]_vars

\* The script is synchronous and every call it makes returns or throws: a
\* process that can take a step takes it.
FairSpec == Spec /\ WF_vars(Next)


-----------------------------------------------------------------------------
(* Properties.                                                             *)

\* Lexicographic order of two character sequences by code unit, stated
\* character by character.
RECURSIVE LexLess(_, _)
LexLess(a, b) ==
    IF b = <<>> THEN FALSE
    ELSE IF a = <<>> THEN TRUE
    ELSE IF Head(a) # Head(b) THEN Code[Head(a)] < Code[Head(b)]
    ELSE LexLess(Tail(a), Tail(b))

\* s with one leading "v" removed.
DropLeadingV(s) ==
    IF Len(s) > 0 /\ s[1] = "v" THEN SubSeq(s, 2, Len(s)) ELSE s

\* The detected and the required string of a recorded prerequisite check.
Detected(c) == DropLeadingV(Trim(c.out))
Required(c) == DropLeadingV(prerequisites[c.i].minVersion)

\* The recorded check c found its tool missing or below the minimum.
CheckFails(c) == c.result = "missing" \/ LexLess(Detected(c), Required(c))

ErrorEntries == SelectSeq(logStream, LAMBDA e : e.sev = "ERROR")

\* The runCommand calls that failed, as indices of acts.
FailedRuns == {k \in 1..Len(acts) : acts[k].op = "run" /\ ~acts[k].ok}

\* C1: a provisioning action (editor probe or install, font download,
\* distribution delete or clone, config copy, language-server install) has
\* run only if the three prerequisite checks ran in list order and each
\* passed; once a check failed, no provisioning action has run.
C1_GateBeforeProvisioning ==
    /\ acts # <<>> =>
          /\ Len(checks) = Len(prerequisites)
          /\ \A k \in 1..Len(checks) : checks[k].i = k /\ ~CheckFails(checks[k])
    /\ (\E k \in 1..Len(checks) : CheckFails(checks[k])) => acts = <<>>

C1_Witness ==
    /\ Len(checks) = 3
    /\ \E k \in 1..Len(acts) : acts[k].op = "run"

\* C2, as stated: a failed runCommand call leaves exactly one ERROR entry in
\* the log, that entry names the command, the process ends with status 1 and
\* no later action runs.
C2_OneErrorEntry ==
    \A k \in FailedRuns :
        /\ Len(ErrorEntries) = 1
        /\ ErrorEntries[1].arg = acts[k].arg
        /\ exitCode = 1
        /\ k = Len(acts)

\* C2, amended: a failed runCommand call leaves exactly two ERROR entries, the
\* first "Error executing command: <command>" naming the command, the second
\* the underlying error's message; the process ends with status 1 and the
\* failed command is the last action of the run.
C2_TwoErrorEntries ==
    \A k \in FailedRuns :
        /\ Len(ErrorEntries) = 2
        /\ ErrorEntries[1].text = "Error executing command: "
        /\ ErrorEntries[1].arg = acts[k].arg
        /\ ErrorEntries[2].text \in {"Command failed: ", "spawnSync /bin/sh ENOENT"}
        /\ logStream[Len(logStream)] = ErrorEntries[2]
        /\ pc = "exited"
        /\ exitCode = 1
        /\ k = Len(acts)

C2_Witness ==
    /\ FailedRuns # {}
    /\ acts[Len(acts)].arg = CmdClone

\* C3: a prerequisite whose probe printed a version passes exactly when the
\* detected string is not below the required one in character-by-character
\* order; passing, the run goes on to the next prerequisite or to the first
\* provisioning step; otherwise the process ends with status 1.
C3_GateIsLexicographic ==
    \A k \in 1..Len(checks) :
        LET c == checks[k] IN
        c.result # "missing" =>
            IF LexLess(Detected(c), Required(c))
            THEN /\ c.result = "outdated"
                 /\ k = Len(checks)
                 /\ pc = "exited"
                 /\ exitCode = 1
            ELSE /\ c.result = "pass"
                 /\ (k = Len(checks) /\ acts = <<>>) =>
                       /\ exitCode = -1
                       /\ IF k < Len(prerequisites)
                          THEN pc = "gate" /\ idx = k + 1
                          ELSE pc = "editor_probe"

\* Node.js 9.0.0 passed against the minimum 14.0.0, and npm 10.0.0 would not.
C3_Witness ==
    /\ Len(checks) = 2
    /\ checks[1].ver = <<9, 0, 0>> /\ checks[1].result = "pass"
    /\ checks[2].ver = <<10, 0, 0>> /\ checks[2].result = "outdated"


\* The minimum versions of lines 27-29 as numbers.
MinNumeric == << <<14, 0, 0>>, <<6, 0, 0>>, <<2, 0, 0>> >>

\* Version a is numerically older than version b.
VersionOlder(a, b) ==
    \/ a[1] < b[1]
    \/ a[1] = b[1] /\ a[2] < b[2]
    \/ a[1] = b[1] /\ a[2] = b[2] /\ a[3] < b[3]

\* C4: for a tool that printed a plain dotted version (with node's "v"), the
\* gate stops the run exactly when that version is numerically older than
\* the tool's minimum.
C4_GateIsNumeric ==
    \A k \in 1..Len(checks) :
        LET c == checks[k] IN
        (c.result # "missing" /\ c.out = ProbeOutput(c.i, c.ver, FALSE)) =>
            (c.result = "outdated" <=> VersionOlder(c.ver, MinNumeric[c.i]))

\* The run ended on one of the three fatal paths the script handles itself.
FatalExit ==
    /\ pc = "exited"
    /\ exitCode = 1
    /\ \/ checks # <<>> /\ checks[Len(checks)].result # "pass"
       \/ FailedRuns # {}

\* C5: when the run has ended on a fatal path, the error message is on the
\* console and in the log file, and every entry logged before it is in the
\* log file.
C5_FatalLogOnDisk ==
    FatalExit =>
        /\ ErrorEntries # <<>>
        /\ \E n \in 1..Len(console) : console[n] = ConsoleLine(ErrorEntries[1])
        /\ logFile = logStream

\* C7: when a prerequisite's probe cannot run, the process ends with status 1
\* with exactly one ERROR entry logged, the "is not installed" message naming
\* that tool, no provisioning action has run and no later prerequisite was
\* checked.
C7_MissingTool ==
    \A k \in 1..Len(checks) :
        checks[k].result = "missing" =>
            /\ pc = "exited"
            /\ exitCode = 1
            /\ Len(ErrorEntries) = 1
            /\ ErrorEntries[1].text
                 = " is not installed. Please install it and run the script again."
            /\ ErrorEntries[1].arg = prerequisites[checks[k].i].name
            /\ logStream[Len(logStream)] = ErrorEntries[1]
            /\ acts = <<>>
            /\ k = Len(checks)
            /\ checks[k].i = k

\* Git, the third prerequisite, was missing after Node.js and npm passed.
C7_Witness ==
    /\ Len(checks) = 3
    /\ checks[3].result = "missing"


\* The stage of the run: the gate is in progress (START), then one stage per
\* completed step; the script has returned and the log stream is closing
\* (LSPS_READY); the process has ended with status 0 (DONE) or 1 (ABORTED).
StageOf(p, code) ==
    CASE p = "exited" -> IF code = 0 THEN "DONE" ELSE "ABORTED"
      [] p = "gate" -> "START"
      [] p \in {"editor_probe", "editor_install"} -> "GATE_PASSED"
      [] p \in {"font_mkdir", "font_curl", "font_unzip", "font_unlink", "font_cache"}
            -> "EDITOR_READY"
      [] p \in {"nvim_check", "nvim_clone"} -> "FONT_READY"
      [] p \in {"custom_mkdir", "copy"} -> "DISTRIBUTION_READY"
      [] p \in {"lsp_pyright", "lsp_ts"} -> "CONFIG_PLACED"
      [] p \in {"script_end", "eventloop"} -> "LSPS_READY"

Stages ==
    <<"START", "GATE_PASSED", "EDITOR_READY", "FONT_READY", "DISTRIBUTION_READY",
      "CONFIG_PLACED", "LSPS_READY", "DONE">>

StageIndex(st) == CHOOSE n \in 1..Len(Stages) : Stages[n] = st

\* A step in which a prerequisite check failed, a runCommand call failed or a
\* filesystem call threw.
FailureStep ==
    \/ /\ Len(checks') = Len(checks) + 1
       /\ checks'[Len(checks')].result # "pass"
    \/ /\ Len(acts') = Len(acts) + 1
       /\ ~acts'[Len(acts')].ok
       /\ acts'[Len(acts')].op # "exec"

StageStep ==
    LET s == StageOf(pc, exitCode)
        t == StageOf(pc', exitCode')
    IN  /\ \/ t = s
           \/ /\ s \notin {"DONE", "ABORTED"}
              /\ t # "ABORTED"
              /\ StageIndex(t) = StageIndex(s) + 1
           \/ /\ s \notin {"DONE", "ABORTED"}
              /\ t = "ABORTED"
        /\ s \in {"DONE", "ABORTED"} => UNCHANGED vars
        /\ FailureStep => t = "ABORTED" /\ pc' = "exited"
        /\ t = "ABORTED" <=> exitCode' = 1
        /\ t = "DONE" <=> exitCode' = 0

\* C6: the stage advances only along START, GATE_PASSED, EDITOR_READY,
\* FONT_READY, DISTRIBUTION_READY, CONFIG_PLACED, LSPS_READY, DONE, one stage
\* at a time; a failure moves the run to ABORTED with exit status 1; nothing
\* changes once the run is DONE or ABORTED.
C6_StageOrder == [][StageStep]_vars

C6_Witness ==
    /\ StageOf(pc, exitCode) = "DONE"
    /\ Len(acts) > 0

\* Number of entries of acts with operation op on arg.
CountActs(op, arg) ==
    Cardinality({k \in 1..Len(acts) : acts[k].op = op /\ acts[k].arg = arg})

IsRemove(a) == a.op = "rmdir" /\ a.arg = nvimDir
IsClone(a) == a.op = "run" /\ a.arg = CmdClone

\* The step of the script that starts the distribution setup: with the
\* configuration root present it is one recursive delete, which either removes
\* the root or throws and ends the run; with the root absent it deletes nothing.
RemoveStep ==
    pc = "nvim_check" =>
        IF host.nvimDir
        THEN /\ Len(acts') = Len(acts) + 1
             /\ SubSeq(acts', 1, Len(acts)) = acts
             /\ IsRemove(acts'[Len(acts')])
             /\ IF acts'[Len(acts')].ok
                THEN ~host'.nvimDir /\ pc' = "nvim_clone"
                ELSE pc' = "exited" /\ exitCode' = 1
        ELSE acts' = acts /\ pc' = "nvim_clone"

\* The step that follows it is one clone command, run with the root absent.
CloneStep ==
    pc = "nvim_clone" =>
        /\ ~host.nvimDir
        /\ Len(acts') = Len(acts) + 1
        /\ SubSeq(acts', 1, Len(acts)) = acts
        /\ IsClone(acts'[Len(acts')])

\* No other step deletes the root or clones.
OtherStep ==
    pc \notin {"nvim_check", "nvim_clone"} =>
        \A k \in (Len(acts) + 1)..Len(acts') :
            ~IsRemove(acts'[k]) /\ ~IsClone(acts'[k])

\* Both steps are entered once, in this order.
DistributionOrder ==
    /\ pc' = "nvim_check" => pc \in {"font_cache", "nvim_check"}
    /\ pc' = "nvim_clone" => pc \in {"nvim_check", "nvim_clone"}
    /\ pc = "nvim_clone" => pc' # "nvim_check"

C9_Start ==
    /\ pc = "font_mkdir"
    /\ ~host.fontDir
    /\ Len(checks) = Len(prerequisites)
    /\ \A k \in 1..Len(checks) : checks[k].result = "pass"
    /\ acts = <<Act("exec", CmdNvimProbe, TRUE)>>

\* A command or a filesystem call of the run has failed.
C9_SomethingFailed ==
    \/ \E k \in 1..Len(acts) : ~acts[k].ok
    \/ pc = "exited" /\ exitCode = 1

\* The actions of a complete run on such a host, in script order.
C9_Expected ==
    << Act("mkdir", fontDir, TRUE),
       Act("run", CmdCurl, TRUE),
       Act("run", CmdUnzip, TRUE),
       Act("unlink", fontZip, TRUE),
       Act("run", CmdFcCache, TRUE),
       Act("run", CmdClone, TRUE),
       Act("copy", configFiles[1].dest, TRUE),
       Act("copy", configFiles[2].dest, TRUE),
       Act("copy", configFiles[3].dest, TRUE),
       Act("run", CmdPyright, TRUE),
       Act("run", CmdTsServer, TRUE) >>

C9_Listed == {C9_Expected[n] : n \in 1..Len(C9_Expected)}

C9_Completed ==
    /\ pc = "exited"
    /\ exitCode = 0
    /\ SelectSeq(acts, LAMBDA a : a \in C9_Listed) = C9_Expected
    /\ CountActs("run", CmdAptInstall) = 0
    /\ host.fontDir /\ host.fonts /\ ~host.zip /\ host.nvimDir
    /\ host.configs = {configFiles[n].dest : n \in 1..Len(configFiles)}
    /\ host.lsps = {"pyright", "typescript-language-server"}

\* C9: when the three prerequisites passed, the editor probe succeeded and the
\* font directory is absent, then unless a command or filesystem call fails the
\* run ends with exit status 0 having performed, once each and in this order,
\* the font directory creation, download, extraction, archive deletion,
\* font-cache refresh, clone, three copies, pyright install and
\* typescript-language-server install, and no editor install.
C9_HappyPathCompletes == C9_Start ~> (C9_SomethingFailed \/ C9_Completed)

C9_Witness == C9_Completed /\ ~C9_SomethingFailed

\* A failing step changes nothing on the host and ends the run; an ended run
\* changes nothing any more.  In particular: the clone fails
\* after the delete and the configuration root stays absent; the extraction
\* fails after the download and the archive stays in place.
NoRollbackStep ==
    /\ FailureStep =>
          /\ host' = host
          /\ pc' = "exited"
          /\ exitCode' = 1
    /\ pc = "exited" => UNCHANGED vars
    /\ (pc = "nvim_clone" /\ FailureStep /\ CountActs("rmdir", nvimDir) = 1) =>
          ~host'.nvimDir
    /\ (pc = "font_unzip" /\ FailureStep) => host'.zip

\* C10: no failure is followed by cleanup or rollback.
C10_NoRollback == [][NoRollbackStep]_vars

\* The clone failed after the existing configuration root was deleted.
C10_Witness ==
    /\ pc = "exited"
    /\ exitCode = 1
    /\ CountActs("rmdir", nvimDir) = 1
    /\ acts[Len(acts)] = Act("run", CmdClone, FALSE)
    /\ ~host.nvimDir

=============================================================================
